---- MODULE Spec2Model ----
(***************************************************************************)
(* Model of streamlit_app_2.py: the copywriter's provider dispatch          *)
(* (run_chat), the self-QA loop (self_qa), the response reconciliation in   *)
(* generate, the variant generator, the adapt pass and the trait rule       *)
(* compiler (trait_rules).                                                  *)
(*                                                                          *)
(* Text is a sequence of one-character strings, so that strip, split,       *)
(* upper, replace, "in" and json.loads are computed, not assumed.           *)
(***************************************************************************)
EXTENDS Integers, Sequences, FiniteSets, TLC

(***************************************************************************)
(* Python string primitives                                                *)
(***************************************************************************)

\* str whitespace (the model's alphabet holds the space and the line break)
WS == {" ", "\n"}

\* the least index at or after i whose character is in the set cs (Len+1 if none)
NextIn(s, i, cs) ==
    IF \E j \in i..Len(s) : s[j] \in cs
    THEN CHOOSE j \in i..Len(s) :
             /\ s[j] \in cs
             /\ \A k \in i..(j - 1) : s[k] \notin cs
    ELSE Len(s) + 1

\* index of the first non-whitespace character at or after i (Len+1 if none)
SkipWs(s, i) ==
    IF \E j \in i..Len(s) : s[j] \notin WS
    THEN CHOOSE j \in i..Len(s) :
             /\ s[j] \notin WS
             /\ \A k \in i..(j - 1) : s[k] \in WS
    ELSE Len(s) + 1

\* index of the last non-whitespace character at or before i (0 if none)
SkipWsBack(s, i) ==
    IF \E j \in 1..i : s[j] \notin WS
    THEN CHOOSE j \in 1..i :
             /\ s[j] \notin WS
             /\ \A k \in (j + 1)..i : s[k] \in WS
    ELSE 0

\* str.strip()
Strip(s) ==
    LET a == SkipWs(s, 1)
        b == SkipWsBack(s, Len(s))
    IN  IF a > b THEN <<>> ELSE SubSeq(s, a, b)

\* len(str.split()): the number of maximal runs of non-whitespace
WordCount(s) ==
    Cardinality({i \in 1..Len(s) : s[i] \notin WS /\ (i = 1 \/ s[i - 1] \in WS)})

\* whether sub occurs in s at position i
StartsAt(s, sub, i) ==
    /\ i + Len(sub) - 1 <= Len(s)
    /\ \A j \in 1..Len(sub) : s[i + j - 1] = sub[j]

\* sub in s
Contains(s, sub) == \E i \in 1..(Len(s) + 1) : StartsAt(s, sub, i)

\* str.replace(sub, rep): leftmost non-overlapping occurrences (sub non-empty)
RECURSIVE ReplaceFrom(_, _, _, _)
ReplaceFrom(s, sub, rep, i) ==
    IF \E j \in i..Len(s) : StartsAt(s, sub, j)
    THEN LET m == CHOOSE j \in i..Len(s) :
                      /\ StartsAt(s, sub, j)
                      /\ \A k \in i..(j - 1) : ~StartsAt(s, sub, k)
         IN  SubSeq(s, i, m - 1) \o rep \o ReplaceFrom(s, sub, rep, m + Len(sub))
    ELSE SubSeq(s, i, Len(s))

Replace(s, sub, rep) == ReplaceFrom(s, sub, rep, 1)

\* str.upper() on the letters of the alphabet
UpperChar(c) ==
    CASE c = "a" -> "A" [] c = "c" -> "C" [] c = "d" -> "D" [] c = "e" -> "E"
      [] c = "f" -> "F" [] c = "g" -> "G" [] c = "h" -> "H" [] c = "i" -> "I"
      [] c = "j" -> "J" [] c = "l" -> "L" [] c = "n" -> "N" [] c = "o" -> "O"
      [] c = "p" -> "P" [] c = "r" -> "R" [] c = "s" -> "S" [] c = "t" -> "T"
      [] c = "w" -> "W" [] c = "x" -> "X" [] c = "y" -> "Y" [] c = "b" -> "B"
      [] c = "k" -> "K" [] c = "m" -> "M" [] c = "u" -> "U" [] c = "v" -> "V"
      [] OTHER -> c

Upper(s) == [i \in 1..Len(s) |-> UpperChar(s[i])]

\* str(n) for n >= 0
DigitChar(d) ==
    CASE d = 0 -> "0" [] d = 1 -> "1" [] d = 2 -> "2" [] d = 3 -> "3"
      [] d = 4 -> "4" [] d = 5 -> "5" [] d = 6 -> "6" [] d = 7 -> "7"
      [] d = 8 -> "8" [] d = 9 -> "9"

RECURSIVE Digits(_)
Digits(n) ==
    IF n < 10 THEN <<DigitChar(n)>>
    ELSE Digits(n \div 10) \o <<DigitChar(n % 10)>>

DigitChars == {"0", "1", "2", "3", "4", "5", "6", "7", "8", "9"}

(***************************************************************************)
(* json.loads on the JSON subset the replies use: objects, arrays,         *)
(* strings with the escapes \n \\ \" \/ and unsigned integers.             *)
(* A value is [t |-> "str"|"num"|"arr"|"obj", v |-> ...]; an object's v is *)
(* the sequence of its <<key, value>> members in source order.             *)
(***************************************************************************)

JFail == [ok |-> FALSE]
JOk(val, next) == [ok |-> TRUE, val |-> val, next |-> next]

\* the body of a string literal from position i (after the opening quote)
\* (it runs from one quote, backslash or line break to the next)
RECURSIVE JStrBody(_, _, _)
JStrBody(s, i, acc) ==
    LET m     == NextIn(s, i, {"\"", "\\", "\n"})
        plain == acc \o SubSeq(s, i, m - 1)
    IN  IF m > Len(s) THEN JFail                  \* unterminated string
        ELSE IF s[m] = "\"" THEN JOk([t |-> "str", v |-> plain], m + 1)
        ELSE IF s[m] = "\n" THEN JFail            \* raw control character
        ELSE IF m + 1 > Len(s) THEN JFail
        ELSE IF s[m + 1] = "n" THEN JStrBody(s, m + 2, Append(plain, "\n"))
        ELSE IF s[m + 1] \in {"\\", "\"", "/"} THEN JStrBody(s, m + 2, Append(plain, s[m + 1]))
        ELSE JFail                                \* invalid escape

RECURSIVE JNumEnd(_, _)
JNumEnd(s, i) ==
    IF i <= Len(s) /\ s[i] \in DigitChars THEN JNumEnd(s, i + 1) ELSE i

RECURSIVE JValue(_, _)
RECURSIVE JMembers(_, _, _)
RECURSIVE JElems(_, _, _)

\* members of an object from position i (at a key), acc the members so far
JMembers(s, i, acc) ==
    IF i > Len(s) \/ s[i] # "\"" THEN JFail
    ELSE LET k == JStrBody(s, i + 1, <<>>)
         IN  IF ~k.ok THEN JFail
             ELSE LET c == SkipWs(s, k.next)
                  IN  IF c > Len(s) \/ s[c] # ":" THEN JFail
                      ELSE LET x == JValue(s, SkipWs(s, c + 1))
                           IN  IF ~x.ok THEN JFail
                               ELSE LET e   == SkipWs(s, x.next)
                                        all == Append(acc, <<k.val.v, x.val>>)
                                    IN  IF e > Len(s) THEN JFail
                                        ELSE IF s[e] = "}" THEN JOk([t |-> "obj", v |-> all], e + 1)
                                        ELSE IF s[e] = "," THEN JMembers(s, SkipWs(s, e + 1), all)
                                        ELSE JFail

\* elements of an array from position i (at a value), acc the elements so far
JElems(s, i, acc) ==
    LET x == JValue(s, i)
    IN  IF ~x.ok THEN JFail
        ELSE LET e   == SkipWs(s, x.next)
                 all == Append(acc, x.val)
             IN  IF e > Len(s) THEN JFail
                 ELSE IF s[e] = "]" THEN JOk([t |-> "arr", v |-> all], e + 1)
                 ELSE IF s[e] = "," THEN JElems(s, SkipWs(s, e + 1), all)
                 ELSE JFail

JValue(s, i) ==
    IF i > Len(s) THEN JFail
    ELSE IF s[i] = "\"" THEN JStrBody(s, i + 1, <<>>)
    ELSE IF s[i] \in DigitChars THEN
        LET e == JNumEnd(s, i) IN JOk([t |-> "num", v |-> SubSeq(s, i, e - 1)], e)
    ELSE IF s[i] = "{" THEN
        LET j == SkipWs(s, i + 1)
        IN  IF j <= Len(s) /\ s[j] = "}" THEN JOk([t |-> "obj", v |-> <<>>], j + 1)
            ELSE JMembers(s, j, <<>>)
    ELSE IF s[i] = "[" THEN
        LET j == SkipWs(s, i + 1)
        IN  IF j <= Len(s) /\ s[j] = "]" THEN JOk([t |-> "arr", v |-> <<>>], j + 1)
            ELSE JElems(s, j, <<>>)
    ELSE JFail

\* json.loads(s): [ok |-> FALSE] stands for JSONDecodeError
JsonLoads(s) ==
    LET x == JValue(s, SkipWs(s, 1))
    IN  IF ~x.ok THEN JFail
        ELSE IF SkipWs(s, x.next) <= Len(s) THEN JFail   \* extra data
        ELSE x

\* dict access: key in obj, obj[key] (the last member of a repeated key wins)
HasKey(obj, key) == \E i \in 1..Len(obj.v) : obj.v[i][1] = key
GetKey(obj, key) ==
    LET i == CHOOSE j \in 1..Len(obj.v) :
                 /\ obj.v[j][1] = key
                 /\ \A k \in (j + 1)..Len(obj.v) : obj.v[k][1] # key
    IN  obj.v[i][2]

(***************************************************************************)
(* Program constants                                                       *)
(***************************************************************************)

OpenAI == "OpenAI (GPT-4)"
Gemini == "Google (Gemini 3)"
Engines == {OpenAI, Gemini}

\* AUTO_QA = True
AUTO_QA == TRUE

\* LENGTH_RULES: bucket -> (min words, max words or None)
LENGTH_RULES ==
    [ Short     |-> [min |-> 100,  max |-> 220,  unbounded |-> FALSE],
      Medium    |-> [min |-> 200,  max |-> 550,  unbounded |-> FALSE],
      Long      |-> [min |-> 500,  max |-> 1600, unbounded |-> FALSE],
      ExtraLong |-> [min |-> 1500, max |-> 3200, unbounded |-> FALSE],
      Monster   |-> [min |-> 3000, max |-> 0,    unbounded |-> TRUE] ]

\* LENGTH_RULES.get(choice, (0, None))[0]
MinLen(choice) ==
    IF choice \in DOMAIN LENGTH_RULES THEN LENGTH_RULES[choice].min ELSE 0

\* for attempt in range(3)
MaxAttempts == 3

\* a doubling backoff in place of the linear one
BackoffDoubling(attempt) == 2 ^ attempt

\* time.sleep(1 + attempt)
Backoff(attempt) == 1 + attempt

\* Python None, as the value of session_state.variants and of generate()
NoneV == [t |-> "none"]

Q      == <<"\"">>
PLAN   == <<"p", "l", "a", "n">>
COPY   == <<"c", "o", "p", "y">>
PASS   == <<"P", "A", "S", "S">>
\* the code fence: "~" stands for the backtick, which a TLA+ string cannot hold
FENCE  == <<"~", "~", "~">>
FENCE_JSON == FENCE \o <<"j", "s", "o", "n">>
ESC_NL == <<"\\", "n">>       \* the two-character literal backslash-n
NL     == <<"\n">>            \* a real line break

(***************************************************************************)
(* self_qa                                                                  *)
(***************************************************************************)

\* f"- Draft is only {word_count} words (Target: {min_len}). Please expand significantly."
ExpandMsg(word_count, min_len) ==
    <<"-", " ", "D", "r", "a", "f", "t", " ", "i", "s", " ", "o", "n", "l", "y", " ">>
    \o Digits(word_count)
    \o <<" ", "w", "o", "r", "d", "s", " ", "(", "T", "a", "r", "g", "e", "t", ":", " ">>
    \o Digits(min_len)
    \o <<")", ".", " ", "P", "l", "e", "a", "s", "e", " ", "e", "x", "p", "a", "n", "d", " ",
         "s", "i", "g", "n", "i", "f", "i", "c", "a", "n", "t", "l", "y", ".">>

\* the gate counting characters in place of words
LengthGateChars(draft, choice) ==
    MinLen(choice) # 0 /\ 2 * Len(draft) < MinLen(choice)

\* the length gate: min_len and word_count < (min_len * 0.5)
LengthGate(draft, choice) ==
    MinLen(choice) # 0 /\ 2 * WordCount(draft) < MinLen(choice)

\* the locally synthesized critique, "" when the gate does not fire
LocalCrit(draft, choice) ==
    IF LengthGate(draft, choice)
    THEN ExpandMsg(WordCount(draft), MinLen(choice))
    ELSE <<>>

\* a verdict that must be the bare token
IsPassExact(crit) == crit = PASS

\* "PASS" in crit.upper()
IsPass(crit) == Contains(Upper(crit), PASS)

\* the revise result taken as it is, empty or not
PatchedNoFallback(patched, draft) == Strip(patched)

\* patched.strip() if patched else draft
Patched(patched, draft) == IF patched # <<>> THEN Strip(patched) ELSE draft

(***************************************************************************)
(* generate: reconciliation of the provider reply                          *)
(***************************************************************************)

\* blank fields told by emptiness alone, without strip()
BriefBlankNoStrip(hook, details) == hook = <<>> \/ details = <<>>

\* not hook.strip() or not details.strip()
BriefBlank(hook, details) == Strip(hook) = <<>> \/ Strip(details) = <<>>

\* raw_json.replace("```json", "").replace("```", "").strip()
CleanFences(raw) == Strip(Replace(Replace(raw, FENCE_JSON, <<>>), FENCE, <<>>))

\* a fallback to an empty object
LoadOrEmpty(clean_json) ==
    LET x == JsonLoads(clean_json)
    IN  IF x.ok THEN x.val ELSE [t |-> "obj", v |-> <<>>]

\* try: json.loads(clean_json)  except JSONDecodeError: {"plan": "", "copy": clean_json}
LoadOrFallback(clean_json) ==
    LET x == JsonLoads(clean_json)
    IN  IF x.ok THEN x.val
        ELSE [t |-> "obj", v |-> << <<PLAN, [t |-> "str", v |-> <<>>]>>,
                                    <<COPY, [t |-> "str", v |-> clean_json]>> >>]

\* data[key].strip(): the exception it raises, "" when it raises none
FieldError(data, key) ==
    IF data.t # "obj" THEN "TypeError"
    ELSE IF ~HasKey(data, key) THEN "KeyError"
    ELSE IF GetKey(data, key).t # "str" THEN "AttributeError"
    ELSE ""

\* data[key].strip() when it raises nothing
Field(data, key) == Strip(GetKey(data, key).v)

\* a repair of the first occurrence only
SanitizeFirstNewline(raw_copy) ==
    IF Contains(raw_copy, ESC_NL)
    THEN LET m == CHOOSE j \in 1..Len(raw_copy) :
                      /\ StartsAt(raw_copy, ESC_NL, j)
                      /\ \A k \in 1..(j - 1) : ~StartsAt(raw_copy, ESC_NL, k)
         IN  SubSeq(raw_copy, 1, m - 1) \o NL \o SubSeq(raw_copy, m + 2, Len(raw_copy))
    ELSE raw_copy

\* if "\\n" in raw_copy: raw_copy = raw_copy.replace("\\n", "\n")
SanitizeNewlines(raw_copy) ==
    IF Contains(raw_copy, ESC_NL) THEN Replace(raw_copy, ESC_NL, NL) ELSE raw_copy

(***************************************************************************)
(* Inputs: what the user enters and what the provider replies              *)
(***************************************************************************)

\* a text of n words
Words(n) == [i \in 1..(2 * n - 1) |-> IF i % 2 = 1 THEN "w" ELSE " "]

JStr(s) == Q \o s \o Q
JObj1(k, v) == <<"{">> \o JStr(k) \o <<":">> \o JStr(v) \o <<"}">>
JObj2(k1, v1, k2, v2) ==
    <<"{">> \o JStr(k1) \o <<":">> \o JStr(v1) \o <<",", " ">>
            \o JStr(k2) \o <<":">> \o JStr(v2) \o <<"}">>

HEADLINES == <<"h", "e", "a", "d", "l", "i", "n", "e", "s">>
CTAS      == <<"c", "t", "a", "s">>

\* the length bucket the user picks (the selectbox lists all of LENGTH_RULES; the
\* drafts below are sized to both sides of half of Short's minimum)
LengthChoices == {"Short"}

\* hook and details of the campaign brief
Briefs ==
    { [hook |-> <<"h">>, details |-> <<"d">>],
      [hook |-> <<" ", "\n">>, details |-> <<"d">>],
      [hook |-> <<"h">>, details |-> <<>>] }

\* replies to the draft request of generate
DraftReplies ==
    { JObj2(PLAN, <<"p">>, COPY, Words(50)),                \* half of Short's minimum
      JObj2(PLAN, <<"p">>, COPY, Words(49)) \o <<"\n">>,    \* one word short of it
      FENCE_JSON \o NL \o JObj2(PLAN, <<" ", "p">>, COPY, <<"w", "\\", "\\", "n", "w">>)
                 \o NL \o FENCE,                            \* fenced, escaped newline
      <<"w", " ", "{", "w">>,                               \* not JSON
      JObj1(COPY, <<"w">>),                                 \* no plan
      JObj1(PLAN, <<"p">>),                                 \* no copy
      JObj2(PLAN, <<"r">>, COPY, <<" ">>),                  \* blank copy
      <<"7">>,                                              \* JSON, not an object
      FENCE_JSON \o FENCE,                                  \* fences around nothing
      <<" ">> }                                             \* blank reply

\* replies to the critique request of self_qa
CritiqueReplies ==
    { <<"P", "A", "S", "S">>,
      <<"-", " ", "b", "y", "p", "a", "s", "s", " ", "x">>,
      <<"-", " ", "f", "i", "x", "\n">>,
      <<"\n">> }

\* replies to the revise request of self_qa
ReviseReplies == { <<" ", "#", " ", "w", " ", "w", "\n">>, <<" ">> }

\* replies to the feedback request of generate (show_critique)
FeedbackReplies == { <<"-", " ", "o", "k">> }

\* replies to generate_variants
VariantReplies ==
    { FENCE_JSON \o <<"{">> \o JStr(HEADLINES) \o <<":", "[">> \o JStr(<<"h">>) \o <<"]", ",">>
                 \o JStr(CTAS) \o <<":", "[">> \o JStr(<<"c">>) \o <<"]", "}">> \o FENCE,
      <<"n", "o">> }

\* replies to the adapt request
AdaptReplies == { <<"w", " ", "u", "k", "\n">> }

\* the number of interactions (script runs) of a session
MaxRuns == 2

\* the text pasted into the adapt tab
Originals == { <<" ">>, <<"w">> }

Replies(k) ==
    CASE k = "draft"    -> DraftReplies
      [] k = "critique" -> CritiqueReplies
      [] k = "revise"   -> ReviseReplies
      [] k = "feedback" -> FeedbackReplies
      [] k = "variants" -> VariantReplies
      [] k = "adapt"    -> AdaptReplies

(***************************************************************************)
(* Slider rules: trait_rules                                               *)
(***************************************************************************)

\* the sliders run from 1 to 10
MinScore == 1
MaxScore == 10

\* how many of the sliders the model holds
NumTraits == 2

\* the sliders of the form, in the order of the trait_scores dict, with their defaults
Sliders ==
    << [name |-> "Urgency",             score |-> 8],
       [name |-> "Data_Richness",       score |-> 7],
       [name |-> "Social_Proof",        score |-> 6],
       [name |-> "Comparative_Framing", score |-> 6],
       [name |-> "Imagery",             score |-> 7],
       [name |-> "Conversational_Tone", score |-> 8],
       [name |-> "FOMO",                score |-> 7],
       [name |-> "Repetition",          score |-> 5] >>

TraitNames == {Sliders[i].name : i \in 1..NumTraits}

\* one trait's entry of traits_config.json; mid_rule is empty when none is configured
TraitEntry(name, lo, hi, mid) ==
    [ present |-> TRUE, low_threshold |-> lo, high_threshold |-> hi,
      high_rule |-> <<name, "high">>, low_rule |-> <<name, "low">>,
      mid_rule |-> IF mid THEN <<name, "mid">> ELSE <<>> ]

\* TRAIT_CFG.get(name) of a trait the configuration does not hold
NoEntry == [present |-> FALSE]

\* the entries a trait may have: none, a wide middle band with and without a
\* mid_rule, and adjacent thresholds
TraitEntries(name) ==
    { NoEntry,
      TraitEntry(name, 3, 8, TRUE),
      TraitEntry(name, 3, 8, FALSE),
      TraitEntry(name, 5, 6, TRUE) }

TraitConfigs == { c \in [TraitNames -> UNION {TraitEntries(n) : n \in TraitNames}] :
                     \A n \in TraitNames : c[n] \in TraitEntries(n) }

\* a high band that starts above the threshold
RuleForStrict(entry, score) ==
    IF ~entry.present THEN <<>>
    ELSE IF score > entry.high_threshold THEN <<entry.high_rule>>
    ELSE IF score <= entry.low_threshold THEN <<entry.low_rule>>
    ELSE IF entry.mid_rule # <<>> THEN <<entry.mid_rule>>
    ELSE <<>>

\* the body of the loop of trait_rules: what one trait appends to out
RuleFor(entry, score) ==
    IF ~entry.present THEN <<>>
    ELSE IF score >= entry.high_threshold THEN <<entry.high_rule>>
    ELSE IF score <= entry.low_threshold THEN <<entry.low_rule>>
    ELSE IF entry.mid_rule # <<>> THEN <<entry.mid_rule>>
    ELSE <<>>

\* trait_rules(traits): the loop over traits.items()
RECURSIVE TraitRulesFrom(_, _, _)
TraitRulesFrom(traits, config, i) ==
    IF i > Len(traits) THEN <<>>
    ELSE RuleFor(config[traits[i].name], traits[i].score)
         \o TraitRulesFrom(traits, config, i + 1)

trait_rules(traits, config) == TraitRulesFrom(traits, config, 1)

(***************************************************************************)
(* The Campaign Brief block of build_prompt                                *)
(***************************************************************************)

\* the labels of the bullets
HOOK_LABEL    == <<"H", "o", "o", "k">>
DETAILS_LABEL == <<"D", "e", "t", "a", "i", "l", "s">>
OFFER_LABEL   == <<"O", "f", "f", "e", "r">>
REPORTS_LABEL == <<"R", "e", "p", "o", "r", "t", "s">>
STOCKS_LABEL  == <<"S", "t", "o", "c", "k", "s", " ", "t", "o", " ", "T", "e", "a", "s", "e">>
QUOTES_LABEL  == <<"Q", "u", "o", "t", "e", "s", "/", "N", "e", "w", "s">>

\* "- {label}:", the start of a bullet
BulletHead(label) == <<"-", " ">> \o label \o <<":">>

\* line(label, value): f"- {label}: {value}\n" if value.strip() else ""
line(label, value) ==
    IF Strip(value) # <<>> THEN BulletHead(label) \o <<" ">> \o value \o NL ELSE <<>>

\* f"Special {brief['offer_price']} (Retail {brief['retail_price']}), Term {brief['offer_term']}"
OfferValue(brief) ==
    <<"S", "p", "e", "c", "i", "a", "l", " ">> \o brief.offer_price
        \o <<" ", "(", "R", "e", "t", "a", "i", "l", " ">> \o brief.retail_price
        \o <<")", ",", " ", "T", "e", "r", "m", " ">> \o brief.offer_term

\* the six line(...) calls under "#### Campaign Brief"
BriefBlock(brief) ==
    line(HOOK_LABEL, brief.hook) \o line(DETAILS_LABEL, brief.details)
        \o line(OFFER_LABEL, OfferValue(brief))
        \o line(REPORTS_LABEL, brief.reports)
        \o line(STOCKS_LABEL, brief.stocks_to_tease)
        \o line(QUOTES_LABEL, brief.quotes_news)

\* the form's text fields that reach the block
BriefKeys == {"hook", "details", "offer_price", "retail_price", "offer_term",
              "reports", "stocks_to_tease", "quotes_news"}

\* the form before the user has typed anything
EmptyBrief == [k \in BriefKeys |-> <<>>]

\* what a field of the form may hold: nothing, a space, a word
FieldTexts == {<<>>, <<" ">>, <<"x">>}

\* the briefs that reach build_prompt: generate returns before it, with a warning,
\* when hook or details is blank
PromptBriefs ==
    { b \in [BriefKeys -> FieldTexts] : ~BriefBlank(b.hook, b.details) }

(***************************************************************************)
(* State                                                                    *)
(***************************************************************************)

VARIABLES
    cfg,      \* openai_client is set, GOOGLE_AVAILABLE
    ss,       \* st.session_state
    pc,       \* "idle": between script runs; "call": entering run_chat;
              \* "chat": in its retry loop; "ret": run_chat has returned
    kind,     \* which request the current run_chat call carries
    attempt,  \* the retry loop's variable
    ret,      \* what run_chat returned, and why
    events,   \* what the current run_chat call did: attempts, sleeps, errors
    calls,    \* the run_chat calls of the current script run, in order, each with
              \* why it returned ("ok", "nocred", "exhausted"; "pending" until then)
              \* and whether it returned the empty string
    shown,    \* st.warning / st.error / st.info of the current script run
    run,      \* locals of the current script run; qa is self_qa's progress:
              \* "none", "running", "done"
    nruns,    \* the number of script runs of the session so far
    TRAIT_CFG,     \* the slider-rule configuration loaded from traits_config.json
    trait_scores,  \* the sliders: the traits in the dict's order, each with its score
    hard_list,     \* the last result of trait_rules, None before any
    raw_copy,      \* a copy text under the newline repair
    repairs,       \* the texts the repair was applied to so far, in order
    brief_dict,    \* what brief() returns: the fields of the campaign brief form
    brief_block    \* the Campaign Brief block of the last prompt built, None before any

vars == <<cfg, ss, pc, kind, attempt, ret, events, calls, shown, run, nruns,
          TRAIT_CFG, trait_scores, hard_list, raw_copy, repairs,
          brief_dict, brief_block>>

sessionVars == <<cfg, ss, pc, kind, attempt, ret, events, calls, shown, run, nruns>>
traitVars   == <<TRAIT_CFG, trait_scores, hard_list>>
repairVars  == <<raw_copy, repairs>>
briefVars   == <<brief_dict, brief_block>>
unitVars    == <<traitVars, repairVars, briefVars>>

NoRet == [v |-> <<>>, why |-> "none"]

NewRun(action, engine) ==
    [ action |-> action, engine |-> engine, show_critique |-> FALSE,
      brief |-> [hook |-> <<>>, details |-> <<>>],
      draft |-> <<>>, crit |-> <<>>, patched |-> <<>>, out |-> <<>>, qa |-> "none",
      revision |-> FALSE, result |-> NoneV, raised |-> "",
      \* the copy, plan and variants as the script run found them
      before |-> [ generated_copy |-> ss.generated_copy,
                   internal_plan |-> ss.internal_plan,
                   variants |-> ss.variants ] ]

Init ==
    /\ cfg \in [openai_client : BOOLEAN, GOOGLE_AVAILABLE : BOOLEAN]
    /\ ss = [ generated_copy |-> <<>>, adapted_copy |-> <<>>, internal_plan |-> <<>>,
              length_choice |-> "", variants |-> NoneV ]
    /\ pc = "idle"
    /\ kind = "none"
    /\ attempt = 0
    /\ ret = NoRet
    /\ events = <<>>
    /\ calls = <<>>
    /\ shown = <<>>
    /\ run = NewRun("none", OpenAI)
    /\ nruns = 0
    /\ TRAIT_CFG = [n \in TraitNames |-> TraitEntry(n, 3, 8, TRUE)]
    /\ trait_scores = SubSeq(Sliders, 1, NumTraits)
    /\ hard_list = NoneV
    /\ raw_copy = <<>>
    /\ repairs = <<>>
    /\ brief_dict = EmptyBrief
    /\ brief_block = NoneV

(***************************************************************************)
(* A script run: Streamlit reruns the script on each interaction           *)
(***************************************************************************)

\* the sidebar's warning, shown on every run
SidebarShown(engine) ==
    IF engine = Gemini /\ ~cfg.GOOGLE_AVAILABLE THEN <<"warning: google key">> ELSE <<>>

\* run_chat(msgs, engine, ...) is called
CallChat(k, fixes, expect_json) ==
    /\ pc' = "call"
    /\ kind' = k
    /\ calls' = Append(calls, [kind |-> k, fixes |-> fixes, expect_json |-> expect_json,
                               why |-> "pending", empty |-> TRUE])
    /\ attempt' = 0
    /\ events' = <<>>
    /\ UNCHANGED ret

\* the script run ends
EndRun ==
    /\ pc' = "idle"
    /\ attempt' = 0
    /\ events' = <<>>
    /\ UNCHANGED <<kind, ret, calls>>

\* the user interacts: the script reruns
StartRun ==
    /\ nruns < MaxRuns
    /\ nruns' = nruns + 1
    /\ ret' = NoRet
    /\ UNCHANGED <<cfg, attempt, events>>

\* a script run that makes no run_chat call
NoCall ==
    /\ pc' = "idle"
    /\ kind' = "none"
    /\ calls' = <<>>

\* a script run's first run_chat call
FirstCall(k, expect_json) ==
    /\ pc' = "call"
    /\ kind' = k
    /\ calls' = <<[kind |-> k, fixes |-> <<>>, expect_json |-> expect_json,
                   why |-> "pending", empty |-> TRUE]>>

\* generate(old), up to its draft request
GenerateEntry(action, old, engine, lc, brief) ==
    /\ run' = [NewRun(action, engine) EXCEPT !.revision = (old # <<>>), !.brief = brief]
    /\ ss' = [ss EXCEPT !.length_choice = lc]
    /\ IF BriefBlank(brief.hook, brief.details)
       THEN /\ shown' = Append(SidebarShown(engine), "warning: brief")
            /\ NoCall
       ELSE /\ shown' = SidebarShown(engine)
            /\ FirstCall("draft", TRUE)

\* st.button("Generate Copy"): result = generate()
PressGenerate ==
    /\ UNCHANGED unitVars
    /\ pc = "idle"
    /\ \E engine \in Engines, lc \in LengthChoices, brief \in Briefs :
          GenerateEntry("generate", <<>>, engine, lc, brief)
    /\ StartRun

\* update_traits and session_state.generated_copy: result = generate(generated_copy)
PressUpdate ==
    /\ UNCHANGED unitVars
    /\ pc = "idle"
    /\ \E engine \in Engines, lc \in LengthChoices, brief \in Briefs :
          IF ss.generated_copy # <<>>
          THEN GenerateEntry("update", ss.generated_copy, engine, lc, brief)
          ELSE /\ run' = NewRun("none", engine)
               /\ ss' = [ss EXCEPT !.length_choice = lc]
               /\ shown' = SidebarShown(engine)
               /\ NoCall
    /\ StartRun

\* st.button("Generate 5 Alt Headlines & CTAs"), drawn only when there is a copy
PressVariants ==
    /\ UNCHANGED unitVars
    /\ pc = "idle"
    /\ ss.generated_copy # <<>>
    /\ \E engine \in Engines, lc \in LengthChoices :
          /\ run' = NewRun("variants", engine)
          /\ ss' = [ss EXCEPT !.length_choice = lc]
          /\ shown' = SidebarShown(engine)
          /\ FirstCall("variants", TRUE)
    /\ StartRun

\* col2.button("Clear"), drawn only when there is a copy
PressClear ==
    /\ UNCHANGED unitVars
    /\ pc = "idle"
    /\ ss.generated_copy # <<>>
    /\ \E engine \in Engines, lc \in LengthChoices :
          /\ run' = NewRun("clear", engine)
          /\ ss' = [ss EXCEPT !.length_choice = lc, !.generated_copy = <<>>,
                              !.internal_plan = <<>>, !.variants = NoneV]
          /\ shown' = SidebarShown(engine)
          /\ NoCall
    /\ StartRun

\* st.button("Adapt Copy") and original_text.strip()
PressAdapt ==
    /\ UNCHANGED unitVars
    /\ pc = "idle"
    /\ \E engine \in Engines, lc \in LengthChoices, original_text \in Originals :
          /\ run' = NewRun("adapt", engine)
          /\ ss' = [ss EXCEPT !.length_choice = lc]
          /\ shown' = SidebarShown(engine)
          /\ IF Strip(original_text) # <<>>
             THEN FirstCall("adapt", FALSE)
             ELSE NoCall
    /\ StartRun

(***************************************************************************)
(* run_chat                                                                 *)
(***************************************************************************)

Ev(e, n, ok) == [e |-> e, n |-> n, ok |-> ok]

\* run_chat returns v to its caller
Return(v, why) ==
    /\ ret' = [v |-> v, why |-> why]
    /\ calls' = [calls EXCEPT ![Len(calls)].why = why, ![Len(calls)].empty = (v = <<>>)]
    /\ pc' = "ret"

\* the pre-flight check of a path: the client or the key is missing
NoCredentials(message) ==
    /\ shown' = Append(shown, message)
    /\ Return(<<>>, "nocred")
    /\ events' = <<>>
    /\ UNCHANGED attempt

\* the retry loop is entered
EnterLoop ==
    /\ pc' = "chat"
    /\ attempt' = 0
    /\ events' = <<>>
    /\ ret' = NoRet
    /\ UNCHANGED <<shown, calls>>

\* PATH A without its pre-flight check
EnterOpenAINoCheck ==
    /\ UNCHANGED unitVars
    /\ pc = "call"
    /\ run.engine = OpenAI
    /\ EnterLoop
    /\ UNCHANGED <<cfg, ss, kind, run, nruns>>

\* PATH A: if not openai_client: st.error(...); return ""
EnterOpenAI ==
    /\ UNCHANGED unitVars
    /\ pc = "call"
    /\ run.engine = OpenAI
    /\ IF ~cfg.openai_client THEN NoCredentials("error: openai key") ELSE EnterLoop
    /\ UNCHANGED <<cfg, ss, kind, run, nruns>>

\* PATH B: if not GOOGLE_AVAILABLE: st.error(...); return ""
EnterGemini ==
    /\ UNCHANGED unitVars
    /\ pc = "call"
    /\ run.engine = Gemini
    /\ IF ~cfg.GOOGLE_AVAILABLE THEN NoCredentials("error: google key") ELSE EnterLoop
    /\ UNCHANGED <<cfg, ss, kind, run, nruns>>

\* the attempt succeeds: return <content>.strip()
AttemptOk(reply) ==
    /\ events' = Append(events, Ev("attempt", attempt, TRUE))
    /\ Return(Strip(reply), "ok")
    /\ UNCHANGED <<attempt, shown>>

\* what the except clause of the OpenAI loop does after attempt a failed
OpenAIExcept(a) == <<Ev("sleep", Backoff(a), TRUE)>>

\* what the except clause of the Gemini loop does after attempt a failed
GeminiExcept(a) ==
    <<Ev("sleep", Backoff(a), TRUE)>>
    \o (IF a = 2 THEN <<Ev("error", a, FALSE)>> ELSE <<>>)

\* the attempt raises: the except clause runs, then the loop goes on or ends, return ""
AttemptFails(handler) ==
    /\ events' = Append(events, Ev("attempt", attempt, FALSE)) \o handler
    /\ shown' = IF \E i \in 1..Len(handler) : handler[i].e = "error"
                THEN Append(shown, "error: api") ELSE shown
    /\ attempt' = attempt + 1
    /\ IF attempt + 1 < MaxAttempts
       THEN /\ pc' = "chat"
            /\ UNCHANGED <<ret, calls>>
       ELSE Return(<<>>, "exhausted")

\* one iteration of the OpenAI retry loop
AttemptOpenAI ==
    /\ UNCHANGED unitVars
    /\ pc = "chat"
    /\ run.engine = OpenAI
    /\ attempt < MaxAttempts
    /\ \/ \E reply \in Replies(kind) : AttemptOk(reply)
       \/ AttemptFails(OpenAIExcept(attempt))
    /\ UNCHANGED <<cfg, ss, kind, run, nruns>>

\* one iteration of the Gemini retry loop
AttemptGemini ==
    /\ UNCHANGED unitVars
    /\ pc = "chat"
    /\ run.engine = Gemini
    /\ attempt < MaxAttempts
    /\ \/ \E reply \in Replies(kind) : AttemptOk(reply)
       \/ AttemptFails(GeminiExcept(attempt))
    /\ UNCHANGED <<cfg, ss, kind, run, nruns>>

(***************************************************************************)
(* generate and self_qa after each run_chat call                           *)
(***************************************************************************)

\* st.session_state.variants = None; return draft; if result: generated_copy = result
GenerateReturn(draft, ss1, run1) ==
    /\ ss' = [ss1 EXCEPT !.variants = NoneV,
                         !.generated_copy = IF draft # <<>> THEN draft ELSE @]
    /\ run' = [run1 EXCEPT !.result = [t |-> "str", v |-> draft]]
    /\ EndRun

\* self_qa has returned out: the show_critique request, or the end of generate
\* (the checkbox is read here, and nowhere before)
AfterSelfQa(out, ss1, run1) ==
    \E show_critique \in BOOLEAN :
        LET run2 == [run1 EXCEPT !.out = out, !.qa = "done",
                                 !.show_critique = show_critique]
        IN  IF show_critique
            THEN /\ ss' = ss1
                 /\ run' = run2
                 /\ CallChat("feedback", <<>>, FALSE)
            ELSE GenerateReturn(out, ss1, run2)

\* self_qa(draft, ...) up to its first run_chat call
SelfQaEntry(draft, ss1) ==
    LET crit == LocalCrit(draft, ss1.length_choice)
        run1 == [run EXCEPT !.draft = draft, !.crit = crit, !.qa = "running"]
    IN  IF ~AUTO_QA THEN AfterSelfQa(draft, ss1, run1)
        ELSE IF crit = <<>>
        THEN /\ ss' = ss1
             /\ run' = run1
             /\ CallChat("critique", <<>>, FALSE)
        ELSE IF IsPass(crit) THEN AfterSelfQa(draft, ss1, run1)
        ELSE /\ ss' = ss1
             /\ run' = run1
             /\ CallChat("revise", crit, FALSE)

\* an exception leaves the script run
Raise(name, ss1) ==
    /\ ss' = ss1
    /\ run' = [run EXCEPT !.raised = name]
    /\ EndRun

\* generate after raw_json = run_chat(msgs, ai_engine, expect_json=True)
ResumeDraft ==
    /\ UNCHANGED unitVars
    /\ pc = "ret"
    /\ kind = "draft"
    /\ IF ret.v = <<>>
       THEN /\ UNCHANGED <<ss, run>>
            /\ EndRun
       ELSE LET data == LoadOrFallback(CleanFences(ret.v))
                ss1  == [ss EXCEPT !.internal_plan = Field(data, PLAN)]
            IN  IF FieldError(data, PLAN) # "" THEN Raise(FieldError(data, PLAN), ss)
                ELSE IF FieldError(data, COPY) # "" THEN Raise(FieldError(data, COPY), ss1)
                ELSE SelfQaEntry(SanitizeNewlines(Field(data, COPY)), ss1)
    /\ UNCHANGED <<cfg, shown, nruns>>

\* self_qa after crit = run_chat(msgs_crit, engine)
ResumeCritique ==
    /\ UNCHANGED unitVars
    /\ pc = "ret"
    /\ kind = "critique"
    /\ LET run1 == [run EXCEPT !.crit = ret.v]
       IN  IF IsPass(ret.v) THEN AfterSelfQa(run.draft, ss, run1)
           ELSE /\ run' = run1
                /\ CallChat("revise", ret.v, FALSE)
                /\ UNCHANGED ss
    /\ UNCHANGED <<cfg, shown, nruns>>

\* self_qa after patched = run_chat(msgs_fix, engine)
ResumeRevise ==
    /\ UNCHANGED unitVars
    /\ pc = "ret"
    /\ kind = "revise"
    /\ AfterSelfQa(Patched(ret.v, run.draft), ss, [run EXCEPT !.patched = ret.v])
    /\ UNCHANGED <<cfg, shown, nruns>>

\* generate after crit = run_chat(msgs_critique, ai_engine): st.info(crit)
ResumeFeedback ==
    /\ UNCHANGED unitVars
    /\ pc = "ret"
    /\ kind = "feedback"
    /\ shown' = Append(shown, "info: critique")
    /\ GenerateReturn(run.out, ss, run)
    /\ UNCHANGED <<cfg, nruns>>

\* generate_variants after resp_text = run_chat(msgs, engine, expect_json=True)
ResumeVariants ==
    /\ UNCHANGED unitVars
    /\ pc = "ret"
    /\ kind = "variants"
    /\ LET x == JsonLoads(CleanFences(ret.v))
       IN  IF ~x.ok THEN Raise("JSONDecodeError", ss)
           ELSE /\ ss' = [ss EXCEPT !.variants = x.val]
                /\ run' = [run EXCEPT !.result = x.val]
                /\ EndRun
    /\ UNCHANGED <<cfg, shown, nruns>>

\* the adapt handler: session_state.adapted_copy = run_chat(msgs, ai_engine)
ResumeAdapt ==
    /\ UNCHANGED unitVars
    /\ pc = "ret"
    /\ kind = "adapt"
    /\ ss' = [ss EXCEPT !.adapted_copy = ret.v]
    /\ run' = [run EXCEPT !.result = [t |-> "str", v |-> ret.v]]
    /\ EndRun
    /\ UNCHANGED <<cfg, shown, nruns>>

Next ==
    \/ PressGenerate
    \/ PressUpdate
    \/ PressVariants
    \/ PressClear
    \/ PressAdapt
    \/ EnterOpenAI
    \/ EnterGemini
    \/ AttemptOpenAI
    \/ AttemptGemini
    \/ ResumeDraft
    \/ ResumeCritique
    \/ ResumeRevise
    \/ ResumeFeedback
    \/ ResumeVariants
    \/ ResumeAdapt

Spec == Init /\ [][Next]_vars

(***************************************************************************)
(* The sliders and the rule compiler on their own                          *)
(***************************************************************************)

InitTraits ==
    /\ cfg = [openai_client |-> TRUE, GOOGLE_AVAILABLE |-> TRUE]
    /\ ss = [ generated_copy |-> <<>>, adapted_copy |-> <<>>, internal_plan |-> <<>>,
              length_choice |-> "", variants |-> NoneV ]
    /\ pc = "idle"
    /\ kind = "none"
    /\ attempt = 0
    /\ ret = NoRet
    /\ events = <<>>
    /\ calls = <<>>
    /\ shown = <<>>
    /\ run = NewRun("none", OpenAI)
    /\ nruns = 0
    /\ TRAIT_CFG \in TraitConfigs
    /\ trait_scores = SubSeq(Sliders, 1, NumTraits)
    /\ hard_list = NoneV
    /\ raw_copy = <<>>
    /\ repairs = <<>>
    /\ brief_dict = EmptyBrief
    /\ brief_block = NoneV

\* st.slider(..., 1, 10, default): the user moves one slider
MoveSlider ==
    /\ \E i \in 1..Len(trait_scores), score \in MinScore..MaxScore :
          /\ score # trait_scores[i].score
          /\ trait_scores' = [trait_scores EXCEPT ![i].score = score]
    /\ hard_list' = NoneV
    /\ UNCHANGED <<TRAIT_CFG, sessionVars, repairVars, briefVars>>

\* hard_list = trait_rules(traits)
CompileRules ==
    /\ hard_list = NoneV
    /\ hard_list' = [t |-> "list", v |-> trait_rules(trait_scores, TRAIT_CFG)]
    /\ UNCHANGED <<TRAIT_CFG, trait_scores, sessionVars, repairVars, briefVars>>

NextTraits == MoveSlider \/ CompileRules

SpecTraits == InitTraits /\ [][NextTraits]_vars

(***************************************************************************)
(* The newline repair on its own                                           *)
(***************************************************************************)

\* the longest copy text the repair is tried on
MaxLen == 4

\* how often the repair is applied to its own output
MaxRepairs == 2

\* the characters of those texts: backslash, n, a line break, another letter
RepairChars == {"\\", "n", "\n", "w"}

CopyTexts == UNION {[1..k -> RepairChars] : k \in 0..MaxLen}

\* the session before any script run, with both providers configured
SessionAtStart ==
    /\ cfg = [openai_client |-> TRUE, GOOGLE_AVAILABLE |-> TRUE]
    /\ ss = [ generated_copy |-> <<>>, adapted_copy |-> <<>>, internal_plan |-> <<>>,
              length_choice |-> "", variants |-> NoneV ]
    /\ pc = "idle"
    /\ kind = "none"
    /\ attempt = 0
    /\ ret = NoRet
    /\ events = <<>>
    /\ calls = <<>>
    /\ shown = <<>>
    /\ run = NewRun("none", OpenAI)
    /\ nruns = 0

\* the sliders at their defaults, no rules compiled
TraitsAtStart ==
    /\ TRAIT_CFG = [n \in TraitNames |-> TraitEntry(n, 3, 8, TRUE)]
    /\ trait_scores = SubSeq(Sliders, 1, NumTraits)
    /\ hard_list = NoneV

InitRepair ==
    /\ SessionAtStart
    /\ TraitsAtStart
    /\ raw_copy \in CopyTexts
    /\ repairs = <<>>
    /\ brief_dict = EmptyBrief
    /\ brief_block = NoneV

\* lines 559-560 of generate, applied to the text at hand
RepairNewlines ==
    /\ Len(repairs) < MaxRepairs
    /\ repairs' = Append(repairs, raw_copy)
    /\ raw_copy' = SanitizeNewlines(raw_copy)
    /\ UNCHANGED <<sessionVars, traitVars, briefVars>>

NextRepair == RepairNewlines

SpecRepair == InitRepair /\ [][NextRepair]_vars

(***************************************************************************)
(* The Campaign Brief block on its own                                     *)
(***************************************************************************)

InitBrief ==
    /\ SessionAtStart
    /\ TraitsAtStart
    /\ raw_copy = <<>>
    /\ repairs = <<>>
    /\ brief_dict \in PromptBriefs
    /\ brief_block = NoneV

\* build_prompt(copy_type, copy_struct, trait_scores, brief(), length_choice, old)
BuildBrief ==
    /\ brief_block = NoneV
    /\ brief_block' = [t |-> "str", v |-> BriefBlock(brief_dict)]
    /\ UNCHANGED <<brief_dict, sessionVars, traitVars, repairVars>>

NextBrief == BuildBrief

SpecBrief == InitBrief /\ [][NextBrief]_vars

(***************************************************************************)
(* Properties                                                               *)
(***************************************************************************)

AttemptIdx == {i \in 1..Len(events) : events[i].e = "attempt"}
SleepIdx   == {i \in 1..Len(events) : events[i].e = "sleep"}
CallDone   == pc = "ret"

\* at most 3 attempts, numbered 0, 1, 2 in order, none after a successful one
AttemptsBounded ==
    /\ Cardinality(AttemptIdx) <= 3
    /\ \A i \in AttemptIdx :
          /\ events[i].n = Cardinality({j \in AttemptIdx : j < i})
          /\ events[i].ok => (i = Len(events) /\ CallDone)

\* C1 as stated: at most 3 attempts, stop at the first success, a wait of 1 + k
\* before attempt k, and no wait other than one that precedes an attempt.
C1_AsStated ==
    /\ AttemptsBounded
    /\ \A i \in AttemptIdx :
          i > 1 /\ events[i - 1] = Ev("sleep", 1 + events[i].n, TRUE)
    /\ CallDone =>
          \A i \in SleepIdx : i < Len(events) /\ events[i + 1].e = "attempt"

\* C1: at most 3 attempts, stop at the first success; the first attempt
\* is made without delay and every failed attempt k is followed at once by a wait
\* of 1 + k (also the last one), so an exhausted call waits 1, 2, 3; there is no
\* wait other than the one that follows a failed attempt.
C1_RetryBackoff ==
    /\ AttemptsBounded
    /\ \A i \in AttemptIdx :
          ~events[i].ok =>
              i < Len(events) /\ events[i + 1] = Ev("sleep", 1 + events[i].n, TRUE)
    /\ \A i \in SleepIdx :
          /\ i > 1
          /\ events[i - 1].e = "attempt"
          /\ ~events[i - 1].ok
          /\ events[i].n = 1 + events[i - 1].n
    /\ (Len(events) > 0) => events[1] = Ev("attempt", 0, events[1].ok)
    /\ (CallDone /\ ret.why = "exhausted") =>
          /\ Cardinality(AttemptIdx) = 3
          /\ {events[i].n : i \in SleepIdx} = {1, 2, 3}
          /\ Cardinality(SleepIdx) = 3

\* a call whose three attempts all failed: waits of 1, 2 and 3, the last one final
C1_Witness ==
    /\ CallDone
    /\ ret.why = "exhausted"
    /\ Cardinality(AttemptIdx) = 3
    /\ events[Len(events)].e \in {"sleep", "error"}
    /\ \E i \in SleepIdx : events[i].n = 3

\* C2 as stated: when all 3 attempts of a call fail, run_chat shows an error
\* message and returns the empty string (for either provider).
C2_AsStated ==
    (CallDone /\ ret.why = "exhausted") =>
        /\ ret.v = <<>>
        /\ \E i \in 1..Len(events) : events[i].e = "error"
        /\ shown # <<>> /\ shown[Len(shown)] = "error: api"

\* C3 as stated: after a provider call that returned empty because its retries
\* were exhausted, no exception leaves the script run, whatever the action.
C3_AsStated ==
    (pc = "idle" /\ calls # <<>> /\ calls[Len(calls)].why = "exhausted") =>
        run.raised = ""

Critiques == {i \in 1..Len(calls) : calls[i].kind = "critique"}
Revises   == {i \in 1..Len(calls) : calls[i].kind = "revise"}

\* the length gate's condition, from the bucket's minimum and the draft's words
GateCase ==
    /\ ss.length_choice \in DOMAIN LENGTH_RULES
    /\ LENGTH_RULES[ss.length_choice].min > 0
    /\ 2 * WordCount(run.draft) < LENGTH_RULES[ss.length_choice].min

\* "PASS" occurs in the critique, in whatever case
PassVerdict(c) ==
    \E i \in 1..(Len(c) - 3) : \A j \in 1..4 : UpperChar(c[i + j - 1]) = PASS[j]

\* C4: a self_qa invocation makes at most one critique and at most one revise call,
\* never a critique after the revise; when the bucket has a minimum and the draft
\* has fewer than half that many words, it makes no critique call and exactly one
\* revise call, which carries the locally synthesized critique.
C4_SelfQaBounded ==
    /\ Cardinality(Critiques) <= 1
    /\ Cardinality(Revises) <= 1
    /\ \A i \in Revises : \A j \in Critiques : j < i
    /\ (run.qa # "none" /\ GateCase) =>
          /\ Critiques = {}
          /\ Cardinality(Revises) = 1
          /\ \A i \in Revises :
                calls[i].fixes = ExpandMsg(WordCount(run.draft),
                                           LENGTH_RULES[ss.length_choice].min)

\* self_qa has returned for a 49-word draft in the Short bucket (minimum 100)
C4_Witness ==
    /\ run.qa = "done"
    /\ ss.length_choice = "Short"
    /\ WordCount(run.draft) = 49
    /\ Revises # {}

\* C5: when self_qa has returned: if the critique holds "PASS" (any case) the draft
\* is returned unchanged and no revise call was made; otherwise exactly one revise
\* call was made and the result is the revised text if that is non-empty, the draft
\* if it is empty; a non-empty draft never gives an empty result.
C5_PassOrRevise ==
    run.qa = "done" =>
        /\ IF PassVerdict(run.crit)
           THEN run.out = run.draft /\ Revises = {}
           ELSE /\ Cardinality(Revises) = 1
                /\ run.patched # <<>> => run.out = run.patched
                /\ run.patched = <<>> => run.out = run.draft
        /\ run.draft # <<>> => run.out # <<>>

\* the revise call gave nothing and the non-empty draft was kept
C5_Witness ==
    /\ run.qa = "done"
    /\ ~PassVerdict(run.crit)
    /\ Revises # {}
    /\ run.patched = <<>>
    /\ run.draft # <<>>
    /\ run.out = run.draft

\* C6: a critique call is made only after the draft request has returned a text;
\* a revise call only after that and after a non-passing critique of this
\* generation: the model's, returned by the critique call just before it, or the
\* length gate's, with no critique call at all.
C6_CallOrder ==
    \A i \in 1..Len(calls) :
        /\ calls[i].kind = "draft" => i = 1
        /\ calls[i].kind = "critique" =>
              /\ i = 2
              /\ calls[1].kind = "draft" /\ calls[1].why = "ok" /\ ~calls[1].empty
        /\ calls[i].kind = "revise" =>
              /\ calls[1].kind = "draft" /\ calls[1].why = "ok" /\ ~calls[1].empty
              /\ ~PassVerdict(run.crit)
              /\ calls[i].fixes = run.crit
              /\ \/ /\ i = 3
                    /\ calls[2].kind = "critique"
                    /\ calls[2].why # "pending"
                 \/ /\ i = 2
                    /\ GateCase
                    /\ run.crit # <<>>

\* draft, then critique, then revise
C6_Witness ==
    /\ Len(calls) >= 3
    /\ calls[1].kind = "draft"
    /\ calls[2].kind = "critique"
    /\ calls[3].kind = "revise"

\* C7: when the draft request returns a text that json.loads rejects (after the
\* fences are stripped), generate raises nothing: the plan becomes empty and the
\* whole fence-stripped text (newlines repaired) is the copy handed to self_qa.
C7_FallbackOnBadJson ==
    [][ (/\ pc = "ret"
         /\ kind = "draft"
         /\ ret.v # <<>>
         /\ ~JsonLoads(CleanFences(ret.v)).ok)
        => (/\ run'.raised = ""
            /\ ss'.internal_plan = <<>>
            /\ run'.qa # "none"
            /\ run'.draft = SanitizeNewlines(CleanFences(ret.v))) ]_vars

\* a generation that ended on the reply "w {w", which is no JSON
C7_Witness ==
    /\ pc = "idle"
    /\ run.action = "generate"
    /\ run.draft = <<"w", " ", "{", "w">>
    /\ run.raised = ""
    /\ ss.internal_plan = <<>>
    /\ run.result # NoneV

BlankField(t) == \A i \in 1..Len(t) : t[i] \in WS

\* C9: a generate call (new or revision) with a blank hook or blank details makes
\* no provider call, shows the warning and returns None; the session's copy, plan
\* and variants stay as they were.
C9_BlankBriefBlocks ==
    [][ (/\ nruns' = nruns + 1
         /\ run'.action \in {"generate", "update"}
         /\ (BlankField(run'.brief.hook) \/ BlankField(run'.brief.details)))
        => (/\ pc' = "idle"
            /\ calls' = <<>>
            /\ \E i \in 1..Len(shown') : shown'[i] = "warning: brief"
            /\ run'.result = NoneV
            /\ ss'.generated_copy = ss.generated_copy
            /\ ss'.internal_plan = ss.internal_plan
            /\ ss'.variants = ss.variants) ]_vars

\* a revision blocked by a blank brief, the copy still in place
C9_Witness ==
    /\ run.action = "update"
    /\ run.revision
    /\ BlankField(run.brief.hook)
    /\ pc = "idle"
    /\ calls = <<>>
    /\ ss.generated_copy # <<>>

CredentialsAbsent ==
    \/ run.engine = OpenAI /\ ~cfg.openai_client
    \/ run.engine = Gemini /\ ~cfg.GOOGLE_AVAILABLE

\* C10: without credentials for the selected provider run_chat never enters its
\* retry loop: no attempt, no wait; it shows a message and returns "".
C10_NoCredentials ==
    CredentialsAbsent =>
        /\ pc # "chat"
        /\ events = <<>>
        /\ \A i \in 1..Len(calls) : calls[i].why \in {"pending", "nocred"}
        /\ pc = "ret" =>
              /\ ret = [v |-> <<>>, why |-> "nocred"]
              /\ shown # <<>>
              /\ shown[Len(shown)] \in {"error: openai key", "error: google key"}

\* run_chat has returned for want of credentials
C10_Witness ==
    /\ pc = "ret"
    /\ CredentialsAbsent
    /\ ret.why = "nocred"
    /\ run.engine = OpenAI

\* the position of a trait's slider in the dict
TraitPos(name) == CHOOSE i \in 1..Len(trait_scores) : trait_scores[i].name = name

Emitted(rule) == \E i \in 1..Len(hard_list.v) : hard_list.v[i] = rule

\* C8: for every trait of the configuration with low_threshold < high_threshold and
\* its score s: high_rule is emitted iff s >= high_threshold, low_rule iff
\* s <= low_threshold, mid_rule iff low_threshold < s < high_threshold and one is
\* configured, nothing otherwise; traits the configuration lacks emit nothing, and
\* the rules come in the order of the traits, one per trait at most.
C8_TraitRules ==
    hard_list # NoneV =>
        /\ \A i \in 1..Len(trait_scores) :
              LET n == trait_scores[i].name
                  s == trait_scores[i].score
                  e == TRAIT_CFG[n]
              IN  IF ~e.present
                  THEN \A band \in {"high", "mid", "low"} : ~Emitted(<<n, band>>)
                  ELSE e.low_threshold < e.high_threshold =>
                          /\ Emitted(<<n, "high">>) <=> s >= e.high_threshold
                          /\ Emitted(<<n, "low">>) <=> s <= e.low_threshold
                          /\ Emitted(<<n, "mid">>) <=>
                                (/\ e.low_threshold < s
                                 /\ s < e.high_threshold
                                 /\ e.mid_rule # <<>>)
        /\ \A j \in 1..Len(hard_list.v) : hard_list.v[j][1] \in TraitNames
        /\ \A j, k \in 1..Len(hard_list.v) :
              j < k => TraitPos(hard_list.v[j][1]) < TraitPos(hard_list.v[k][1])

\* a score on the high threshold gives the high rule, the next trait has no entry
C8_Witness ==
    /\ hard_list # NoneV
    /\ TRAIT_CFG[trait_scores[1].name].present
    /\ trait_scores[1].score = TRAIT_CFG[trait_scores[1].name].high_threshold
    /\ ~TRAIT_CFG[trait_scores[2].name].present
    /\ hard_list.v = << <<trait_scores[1].name, "high">> >>

\* where the two characters backslash, n stand in a text
EscapedAt(s) == {i \in 1..(Len(s) - 1) : s[i] = "\\" /\ s[i + 1] = "n"}

\* the positions of a text that are not the n of an escaped newline
KeptAt(s) == {p \in 1..Len(s) : (p - 1) \notin EscapedAt(s)}

\* out is s with each escaped newline turned into a line break, all else as it was
IsRepairOf(out, s) ==
    /\ Len(out) = Cardinality(KeptAt(s))
    /\ \A p \in KeptAt(s) :
          out[Cardinality({q \in KeptAt(s) : q <= p})]
              = IF p \in EscapedAt(s) THEN "\n" ELSE s[p]

\* the text the k-th application of the repair gave
RepairOutput(k) == IF k < Len(repairs) THEN repairs[k + 1] ELSE raw_copy

\* C11: the newline repair turns every occurrence of the two characters
\* backslash, n into a line break and changes nothing else, and it is idempotent:
\* applied to its own output it gives that output again, for every text.
C11_NewlineRepair ==
    \A k \in 1..Len(repairs) :
        /\ IsRepairOf(RepairOutput(k), repairs[k])
        /\ EscapedAt(RepairOutput(k)) = {}
        /\ k >= 2 => RepairOutput(k) = repairs[k]

\* two escaped newlines repaired, and the repair applied again to the result
C11_Witness ==
    /\ Len(repairs) = 2
    /\ repairs[1] = <<"\\", "n", "\\", "n">>
    /\ repairs[2] = <<"\n", "\n">>
    /\ raw_copy = <<"\n", "\n">>

\* C12 as stated: when the draft reply is a JSON object without a plan field (its
\* copy a string), generate raises nothing, stores the empty plan and still
\* extracts the copy.
C12_AsStated ==
    [][ LET x == JsonLoads(CleanFences(ret.v))
        IN  (/\ pc = "ret"
             /\ kind = "draft"
             /\ ret.v # <<>>
             /\ x.ok
             /\ x.val.t = "obj"
             /\ ~HasKey(x.val, PLAN)
             /\ HasKey(x.val, COPY)
             /\ GetKey(x.val, COPY).t = "str")
            => (/\ run'.raised = ""
                /\ ss'.internal_plan = <<>>
                /\ run'.draft = SanitizeNewlines(Field(x.val, COPY))) ]_vars

\* the bullet with this label stands in the block built
HasBullet(label) == Contains(brief_block.v, BulletHead(label))

\* all of the texts the user gave for a field are blank
AllBlank(texts) == \A t \in texts : BlankField(t)

\* C13 as stated: in the prompt built, the bullet of a brief field (hook, details,
\* offer, reports, stocks, quotes) is absent when all of the values the user
\* supplied for that field are blank.
C13_AsStated ==
    brief_block # NoneV =>
        /\ AllBlank({brief_dict.hook}) => ~HasBullet(HOOK_LABEL)
        /\ AllBlank({brief_dict.details}) => ~HasBullet(DETAILS_LABEL)
        /\ AllBlank({brief_dict.offer_price, brief_dict.retail_price,
                     brief_dict.offer_term}) => ~HasBullet(OFFER_LABEL)
        /\ AllBlank({brief_dict.reports}) => ~HasBullet(REPORTS_LABEL)
        /\ AllBlank({brief_dict.stocks_to_tease}) => ~HasBullet(STOCKS_LABEL)
        /\ AllBlank({brief_dict.quotes_news}) => ~HasBullet(QUOTES_LABEL)

\* C14 as stated: when the critique call has exhausted its retries and returned
\* nothing, self_qa makes no revise call and returns the original draft.
C14_AsStated ==
    (\E i \in Critiques : calls[i].why = "exhausted") =>
        /\ Revises = {}
        /\ run.qa = "done" => run.out = run.draft

\* the script run was a generate or update action and is over
GenerationOver == pc = "idle" /\ run.action \in {"generate", "update"}

\* it stored a new non-empty copy
StoredNewCopy ==
    /\ run.result # NoneV
    /\ run.result.v # <<>>
    /\ ss.generated_copy = run.result.v

\* C15 as stated: a generate or update action that does not end up storing a new
\* non-empty copy leaves the stored plan and the stored variants as they were
\* (and the stored copy too).
C15_AsStated ==
    (GenerationOver /\ ~StoredNewCopy) =>
        /\ ss.generated_copy = run.before.generated_copy
        /\ ss.internal_plan = run.before.internal_plan
        /\ ss.variants = run.before.variants

====
